---- MODULE Spec2Model ----
(***************************************************************************)
(* rouilledb, src/fs: the File trait's error values and its in-memory      *)
(* implementation MemoryFile (an open flag and a Vec<u8>).                  *)
(*                                                                         *)
(* One MemoryFile is constructed (new or new_with_data) and then driven by *)
(* a caller through the trait's methods.  Every action is one whole call;  *)
(* the state after it records the call, its arguments, the unit before it  *)
(* and the Result.  Proceed is the caller going on to its next call.       *)
(* read, sync and size take self by value: they end the life of the unit.  *)
(* usize is modelled as the integers modulo 2^WordBits, a Vec or a slice   *)
(* holds at most isize::MAX bytes.  offset + len is computed as both kinds *)
(* of build compute it: panicking on overflow, or wrapping around.         *)
(***************************************************************************)
EXTENDS Integers, Sequences, FiniteSets, TLC

\* ------------------------------------------------------------------ bounds
\* width of usize in bits (scaled down from 32/64)
WordBits == 3
\* the small offsets a caller passes are 0..MaxOff (the largest ones are added)
MaxOff == 2
\* longest data slice / read buffer a caller passes
MaxLen == 2
\* byte values are 0..MaxByte
MaxByte == 1
\* longest content handed to new_with_data
MaxSeed == 2
\* the caller's writes at small offsets end at MaxSize at most
MaxSize == 3

RECURSIVE Pow2(_)
Pow2(n) == IF n = 0 THEN 1 ELSE 2 * Pow2(n - 1)

UsizeRange == Pow2(WordBits)
UsizeMax == UsizeRange - 1
IsizeMax == Pow2(WordBits - 1) - 1

Min(a, b) == IF a < b THEN a ELSE b
Max(a, b) == IF a < b THEN b ELSE a

Bytes == 0..MaxByte

SeqsUpTo(n) == UNION {[1..k -> Bytes] : k \in 0..n}

\* the slices a caller can pass: &[u8] and &mut [u8] of bounded length
Slices == SeqsUpTo(Min(MaxLen, IsizeMax))

\* the contents new_with_data can be given
Seeds == SeqsUpTo(Min(MaxSeed, IsizeMax))

\* the offsets a caller passes: the small ones and the two largest usize values
Offsets == (0..Min(MaxOff, UsizeMax)) \cup {UsizeMax - 1, UsizeMax}

\* ------------------------------------------------------- FileError, Result
NoFields == [file_size |-> 0, offset |-> 0, read_size |-> 0, value |-> 0]

Ok == [kind |-> "Ok"] @@ NoFields

\* Ok(n) of size()
OkValue(n) == [kind |-> "Ok", value |-> n] @@ NoFields

FileAlreadyExists == [kind |-> "FileAlreadyExists"] @@ NoFields

FileNotOpened == [kind |-> "FileNotOpened"] @@ NoFields

FileOpened == [kind |-> "FileOpened"] @@ NoFields

EndOfFileRead(file_size, offset, read_size) ==
    [kind |-> "EndOfFileRead", file_size |-> file_size, offset |-> offset,
     read_size |-> read_size, value |-> 0]

\* the call did not return: it panicked (arithmetic overflow, capacity
\* overflow of the Vec, slice index out of order) and the caller's thread
\* unwinds, so no further call is made on the unit
Panic == [kind |-> "Panic"] @@ NoFields

\* ---------------------------------------------------------- Vec and slices
\* as resize, but the new bytes are not set to value
resizeIgnoresValue(v, new_len, value) ==
    [i \in 1..new_len |-> IF i <= Len(v) THEN v[i] ELSE MaxByte]

\* Vec::resize(new_len, value): truncates, or extends with copies of value
resize(v, new_len, value) ==
    [i \in 1..new_len |-> IF i <= Len(v) THEN v[i] ELSE value]

\* as copy_from_slice, but into v[0..len(src)]
copy_from_sliceAtStart(v, offset, end_offset, src) ==
    [i \in 1..Len(v) |-> IF i <= Len(src) THEN src[i] ELSE v[i]]

\* as copy_from_slice, but the bytes of v outside the range are zeroed
copy_from_sliceZeroesRest(v, offset, end_offset, src) ==
    [i \in 1..Len(v) |-> IF offset < i /\ i <= end_offset THEN src[i - offset] ELSE 0]

\* v[offset..end_offset].copy_from_slice(src), indices counted from 0
copy_from_slice(v, offset, end_offset, src) ==
    [i \in 1..Len(v) |-> IF offset < i /\ i <= end_offset THEN src[i - offset] ELSE v[i]]

\* &v[offset..end_offset], indices counted from 0
slice(v, offset, end_offset) == SubSeq(v, offset + 1, end_offset)

\* offset + len on usize: a build with overflow checks (debug) panics when the
\* sum leaves the word, a build without them (release) wraps around; the
\* calls below take the build's choice as overflow_checks
add_overflows(a, b) == a + b > UsizeMax

wrapping_add(a, b) == (a + b) % UsizeRange

\* ------------------------------------------------------------- MemoryFile
\* MemoryFile { is_opened, data }
MemoryFile(is_opened, data) == [is_opened |-> is_opened, data |-> data]

new == MemoryFile(FALSE, <<>>)

new_with_data(d) == MemoryFile(FALSE, d)

\* what a &mut self method leaves: the unit and the returned Result
Ret(self, result) == [self |-> self, result |-> result]

\* as create, without the early return on an open unit
createSkipsOpenCheck(self) ==
    Ret([self EXCEPT !.is_opened = TRUE], Ok)

\* as create, but content that is already there is taken for an existing file
createRefusesExisting(self) ==
    IF self.is_opened
    THEN Ret(self, FileOpened)
    ELSE IF Len(self.data) > 0
    THEN Ret(self, FileAlreadyExists)
    ELSE Ret([self EXCEPT !.is_opened = TRUE], Ok)

create(self) ==
    IF self.is_opened
    THEN Ret(self, FileOpened)
    ELSE Ret([self EXCEPT !.is_opened = TRUE], Ok)

\* as close, but the buffer is released with the session
closeClearsData(self) ==
    IF ~self.is_opened
    THEN Ret(self, FileNotOpened)
    ELSE Ret([self EXCEPT !.is_opened = FALSE, !.data = <<>>], Ok)

close(self) ==
    IF ~self.is_opened
    THEN Ret(self, FileNotOpened)
    ELSE Ret([self EXCEPT !.is_opened = FALSE], Ok)

\* as open, but the flag is not set
openForgetsFlag(self) ==
    IF self.is_opened
    THEN Ret(self, FileOpened)
    ELSE Ret(self, Ok)

open(self) ==
    IF self.is_opened
    THEN Ret(self, FileOpened)
    ELSE Ret([self EXCEPT !.is_opened = TRUE], Ok)

\* as delete, but an open unit is closed before the error is returned
deleteClosesOpenUnit(self) ==
    IF self.is_opened
    THEN Ret([self EXCEPT !.is_opened = FALSE], FileOpened)
    ELSE Ret(self, Ok)

\* as delete, without the early return on an open unit
deleteSkipsOpenCheck(self) ==
    Ret(self, Ok)

delete(self) ==
    IF self.is_opened
    THEN Ret(self, FileOpened)
    ELSE Ret(self, Ok)

\* as write, but data is resized to end_offset even when it is longer
writeAlwaysResizes(self, offset, d, overflow_checks) ==
    IF ~self.is_opened THEN Ret(self, FileNotOpened)
    ELSE IF overflow_checks /\ add_overflows(offset, Len(d)) THEN Ret(self, Panic)
    ELSE
      LET end_offset == wrapping_add(offset, Len(d))
      IN  IF end_offset > IsizeMax
          THEN Ret(self, Panic)
          ELSE
            LET resized == resize(self.data, end_offset, 0)
            IN  IF offset > end_offset
                THEN Ret([self EXCEPT !.data = resized], Panic)
                ELSE Ret([self EXCEPT !.data =
                                 copy_from_slice(resized, offset, end_offset, d)], Ok)

write(self, offset, d, overflow_checks) ==
    IF ~self.is_opened THEN Ret(self, FileNotOpened)
    ELSE IF overflow_checks /\ add_overflows(offset, Len(d)) THEN Ret(self, Panic)
    ELSE
      LET end_offset == wrapping_add(offset, Len(d))
          grows == Len(self.data) < end_offset
      IN  IF grows /\ end_offset > IsizeMax
          THEN Ret(self, Panic)   \* resize: capacity overflow
          ELSE
            LET resized == IF grows THEN resize(self.data, end_offset, 0) ELSE self.data
            IN  IF offset > end_offset \/ end_offset > Len(resized)
                THEN Ret([self EXCEPT !.data = resized], Panic)   \* slice index
                ELSE Ret([self EXCEPT !.data =
                                 copy_from_slice(resized, offset, end_offset, d)], Ok)

\* as read, but a read that ends exactly at the end of the content is refused
readRefusesBoundary(self, offset, buffer, overflow_checks) ==
    IF ~self.is_opened THEN [result |-> FileNotOpened, buffer |-> buffer]
    ELSE IF overflow_checks /\ add_overflows(offset, Len(buffer))
    THEN [result |-> Panic, buffer |-> buffer]
    ELSE
      LET end_offset == wrapping_add(offset, Len(buffer))
      IN  IF Len(self.data) <= end_offset
          THEN [result |-> EndOfFileRead(Len(self.data), offset, Len(buffer)),
                buffer |-> buffer]
          ELSE IF offset > end_offset
          THEN [result |-> Panic, buffer |-> buffer]
          ELSE [result |-> Ok, buffer |-> slice(self.data, offset, end_offset)]

\* read takes self by value: it leaves the Result and the caller's buffer
read(self, offset, buffer, overflow_checks) ==
    IF ~self.is_opened THEN [result |-> FileNotOpened, buffer |-> buffer]
    ELSE IF overflow_checks /\ add_overflows(offset, Len(buffer))
    THEN [result |-> Panic, buffer |-> buffer]
    ELSE
      LET end_offset == wrapping_add(offset, Len(buffer))
      IN  IF Len(self.data) < end_offset
          THEN [result |-> EndOfFileRead(Len(self.data), offset, Len(buffer)),
                buffer |-> buffer]
          ELSE IF offset > end_offset
          THEN [result |-> Panic, buffer |-> buffer]   \* slice index
          ELSE [result |-> Ok, buffer |-> slice(self.data, offset, end_offset)]

\* as sync, but gated on the open state like size
syncChecksOpen(self) ==
    IF ~self.is_opened THEN FileNotOpened ELSE Ok

sync(self) == Ok

\* as size, without the early return on a closed unit
sizeSkipsOpenCheck(self) ==
    OkValue(Len(self.data))

size(self) ==
    IF ~self.is_opened THEN FileNotOpened ELSE OkValue(Len(self.data))

\* ---------------------------------------------------------- state machine
VARIABLES
    is_opened,        \* MemoryFile.is_opened
    data,             \* MemoryFile.data
    consumed,         \* the unit was moved into read, sync or size (self by value)
    op,               \* the call that just returned ("none" between calls)
    offset,           \* its offset argument (0 when it has none)
    arg,              \* its slice argument as passed: write's data, read's buffer
    buffer,           \* the caller's buffer after a read
    result,           \* what the call returned, or Panic
    pre_opened,       \* is_opened when the call was made
    pre_data,         \* data when the call was made
    opened_by,        \* the call that opened the unit last ("none": never opened)
    after_delete,     \* the call before this one was a delete that returned Ok
    seed_len,         \* length of the content the unit was constructed with
    max_end           \* highest offset + len(data) of the writes that returned Ok

vars == <<is_opened, data, consumed, op, offset, arg, buffer, result,
          pre_opened, pre_data, opened_by, after_delete, seed_len, max_end>>

self == MemoryFile(is_opened, data)

\* no Result is held: the unit was just constructed, or the last one was used
NoResult == [kind |-> "None"] @@ NoFields

\* the caller holds the unit and is between two calls
Idle == ~consumed /\ result = NoResult

\* bookkeeping common to every call
Call(name, off, a) ==
    /\ op' = name
    /\ offset' = off
    /\ arg' = a
    /\ pre_opened' = is_opened
    /\ pre_data' = data
    /\ UNCHANGED <<after_delete, seed_len>>

\* a &mut self method returned r (see Ret)
Returned(r) ==
    /\ is_opened' = r.self.is_opened
    /\ data' = r.self.data
    /\ result' = r.result
    /\ buffer' = <<>>
    /\ consumed' = FALSE

\* a self method returned res: the unit is dropped with the call's frame
Consumed(res, buf) ==
    /\ UNCHANGED <<is_opened, data, opened_by, max_end>>
    /\ result' = res
    /\ buffer' = buf
    /\ consumed' = TRUE

\* the unit as constructed: MemoryFile::new() or MemoryFile::new_with_data(d)
Constructed(name, unit) ==
    /\ op = name
    /\ is_opened = unit.is_opened
    /\ data = unit.data
    /\ seed_len = Len(unit.data)
    /\ pre_data = unit.data
    /\ pre_opened = unit.is_opened

Init ==
    /\ \/ Constructed("new", new)
       \/ \E d \in Seeds : Constructed("new_with_data", new_with_data(d))
    /\ consumed = FALSE
    /\ offset = 0
    /\ arg = <<>>
    /\ buffer = <<>>
    /\ result = NoResult
    /\ opened_by = "none"
    /\ after_delete = FALSE
    /\ max_end = 0

Create ==
    /\ Idle
    /\ Call("create", 0, <<>>)
    /\ Returned(create(self))
    /\ opened_by' = IF create(self).result = Ok THEN "create" ELSE opened_by
    /\ UNCHANGED max_end

Close ==
    /\ Idle
    /\ Call("close", 0, <<>>)
    /\ Returned(close(self))
    /\ UNCHANGED <<opened_by, max_end>>

Open ==
    /\ Idle
    /\ Call("open", 0, <<>>)
    /\ Returned(open(self))
    /\ opened_by' = IF open(self).result = Ok THEN "open" ELSE opened_by
    /\ UNCHANGED max_end

Delete ==
    /\ Idle
    /\ Call("delete", 0, <<>>)
    /\ Returned(delete(self))
    /\ UNCHANGED <<opened_by, max_end>>

Write ==
    /\ Idle
    /\ \E off \in Offsets, d \in Slices, overflow_checks \in BOOLEAN :
         LET r == write(self, off, d, overflow_checks)
         IN  /\ off + Len(d) <= MaxSize \/ off > MaxOff
             /\ Call("write", off, d)
             /\ Returned(r)
             /\ max_end' = IF r.result = Ok THEN Max(max_end, off + Len(d))
                           ELSE max_end
             /\ UNCHANGED opened_by

Read ==
    /\ Idle
    /\ \E off \in Offsets, buf \in Slices, overflow_checks \in BOOLEAN :
         LET r == read(self, off, buf, overflow_checks)
         IN  /\ Call("read", off, buf)
             /\ Consumed(r.result, r.buffer)

Sync ==
    /\ Idle
    /\ Call("sync", 0, <<>>)
    /\ Consumed(sync(self), <<>>)

Size ==
    /\ Idle
    /\ Call("size", 0, <<>>)
    /\ Consumed(size(self), <<>>)

\* the caller has looked at the Result of a &mut self call (expect, matches!)
\* and goes on to its next call on the same unit
Proceed ==
    /\ ~consumed
    /\ result \notin {NoResult, Panic}
    /\ op' = "none"
    /\ offset' = 0
    /\ arg' = <<>>
    /\ buffer' = <<>>
    /\ result' = NoResult
    /\ pre_opened' = is_opened
    /\ pre_data' = data
    /\ after_delete' = (op = "delete" /\ result = Ok)
    /\ UNCHANGED <<is_opened, data, consumed, opened_by, seed_len, max_end>>

Next ==
    \/ Create
    \/ Close
    \/ Open
    \/ Delete
    \/ Write
    \/ Read
    \/ Sync
    \/ Size
    \/ Proceed

Spec == Init /\ [][Next]_vars

\* ------------------------------------------------------------------ claims
\* the bytes [from, to) of v, indices counted from 0
Range(v, from, to) == [i \in 1..(to - from) |-> v[from + i]]

\* C1: create or open called on an open unit returns FileOpened, and the unit
\* is still open after the call.
C1_OpenWhileOpenFails ==
    (op \in {"create", "open"} /\ pre_opened) =>
        (result = FileOpened /\ is_opened)

\* an open was refused on an open unit that holds written content
C1_Witness ==
    /\ op = "open"
    /\ pre_opened
    /\ max_end > 0
    /\ result = FileOpened

\* C2: close, write, read and size called on a closed unit return
\* FileNotOpened, whatever the offset, the data or the buffer, from the
\* construction of the unit onwards.
C2_ClosedUnitRefuses ==
    (op \in {"close", "write", "read", "size"} /\ ~pre_opened) =>
        result = FileNotOpened

\* a read at the largest offset was refused on a unit that was never opened
C2_Witness ==
    /\ op = "read"
    /\ ~pre_opened
    /\ opened_by = "none"
    /\ offset = UsizeMax
    /\ Len(arg) > 0
    /\ result = FileNotOpened

\* C3: delete on an open unit returns FileOpened and leaves the unit open with
\* its content; delete on a closed unit returns Ok.
C3_DeleteGated ==
    op = "delete" =>
        IF pre_opened
        THEN result = FileOpened /\ is_opened /\ data = pre_data
        ELSE result = Ok

\* a delete was refused on an open unit that holds content
C3_Witness ==
    /\ op = "delete"
    /\ pre_opened
    /\ Len(pre_data) > 0
    /\ result = FileOpened

\* C4: after a write(O, B) that returned Ok on a unit opened by create, a read
\* of len(B) bytes at O returns Ok and leaves B in the buffer, whatever the
\* buffer held and whatever the build.
C4_WriteThenRead ==
    (op = "write" /\ result = Ok /\ opened_by = "create") =>
        \A buf \in Slices, overflow_checks \in BOOLEAN :
            Len(buf) = Len(arg) =>
                read(self, offset, buf, overflow_checks) =
                    [result |-> Ok, buffer |-> arg]

\* a non-zero block of the longest length was written past the start of a
\* unit opened by create
C4_Witness ==
    /\ op = "write"
    /\ result = Ok
    /\ opened_by = "create"
    /\ offset > 0
    /\ Len(arg) = MaxLen
    /\ \A i \in 1..Len(arg) : arg[i] # 0

\* C5: a write(O, B) on an open unit of size S < O leaves zero in every byte
\* of [S, O); when it returns Ok these bytes all exist, and on a unit that was
\* empty a read of [0, O) then returns O zero bytes.
C5_GrowthZeroFill ==
    (op = "write" /\ pre_opened /\ Len(pre_data) < offset) =>
        /\ \A p \in (Len(pre_data) + 1)..Min(offset, Len(data)) : data[p] = 0
        /\ result = Ok =>
             /\ Len(data) >= offset
             /\ pre_data = <<>> =>
                  \A overflow_checks \in BOOLEAN :
                      read(self, 0, [i \in 1..offset |-> MaxByte], overflow_checks) =
                          [result |-> Ok, buffer |-> [i \in 1..offset |-> 0]]

\* a non-zero block was written beyond the end of a unit that held content
C5_Witness ==
    /\ op = "write"
    /\ result = Ok
    /\ 0 < Len(pre_data)
    /\ Len(pre_data) < offset
    /\ Len(arg) > 0
    /\ arg[1] # 0

\* C6: a read(offset, buffer) on an open unit of size S with
\* offset + len(buffer) > S returns EndOfFileRead with file_size = S, the
\* offset and read_size = len(buffer) as requested, and the buffer is as the
\* caller passed it.
C6_ShortReadRejected ==
    (op = "read" /\ pre_opened /\ offset + Len(arg) > Len(pre_data)) =>
        /\ result = EndOfFileRead(Len(pre_data), offset, Len(arg))
        /\ buffer = arg

\* C7: a read(offset, buffer) on an open unit with content C returns Ok
\* exactly when offset + len(buffer) <= len(C), and then the buffer holds
\* C[offset .. offset + len(buffer)).
C7_InBoundsRead ==
    (op = "read" /\ pre_opened) =>
        /\ result = Ok <=> offset + Len(arg) <= Len(pre_data)
        /\ result = Ok => buffer = Range(pre_data, offset, offset + Len(arg))

\* a read past the start that ends exactly at the end of the content
\* returned Ok
C7_Witness ==
    /\ op = "read"
    /\ pre_opened
    /\ result = Ok
    /\ offset > 0
    /\ Len(arg) > 0
    /\ offset + Len(arg) = Len(pre_data)

\* C8 as stated: size() returns the highest offset + len(data) written, 0
\* when nothing was written, and the size never decreases.
C8_SizeIsHighestWriteEnd ==
    /\ (op = "size" /\ result.kind = "Ok") => result.value = max_end
    /\ Len(data) >= Len(pre_data)

\* C8 amended: size() returns the larger of the length of the content the
\* unit was constructed with and the highest offset + len(data) of the
\* writes that returned Ok, and no call makes the size smaller.
C8_SizeIsHighWaterMark ==
    /\ (op = "size" /\ result.kind = "Ok") => result.value = Max(seed_len, max_end)
    /\ Len(data) >= Len(pre_data)
    /\ Len(pre_data) >= seed_len

\* size() returned on a seeded unit after a write that ended before the end
\* of the content
C8_Witness ==
    /\ op = "size"
    /\ result.kind = "Ok"
    /\ seed_len > 0
    /\ max_end > 0
    /\ max_end < Len(data)

\* C9: the unit is constructed closed; it goes from closed to open exactly in
\* a create or open that returns Ok, from open to closed exactly in a close
\* that returns Ok; create and open return Ok on a closed unit and close
\* returns Ok on an open one.
C9_TwoStateLifecycle ==
    /\ op \in {"new", "new_with_data"} => ~is_opened
    /\ (~pre_opened /\ is_opened) <=>
           (~pre_opened /\ op \in {"create", "open"} /\ result = Ok)
    /\ (pre_opened /\ ~is_opened) <=>
           (pre_opened /\ op = "close" /\ result = Ok)
    /\ (op \in {"create", "open"} /\ ~pre_opened) => result = Ok
    /\ (op = "close" /\ pre_opened) => result = Ok

\* a close returned Ok on a unit that was opened by open and written to
C9_Witness ==
    /\ op = "close"
    /\ result = Ok
    /\ ~is_opened
    /\ opened_by = "open"
    /\ max_end > 0

\* C10: after a delete that returned Ok on a closed unit that held content,
\* the next create returns Ok and leaves the unit empty: size() returns 0.
C10_RecreateStartsEmpty ==
    (op = "create" /\ after_delete /\ Len(pre_data) > 0) =>
        /\ result = Ok
        /\ data = <<>>
        /\ size(self) = OkValue(0)

C12_SyncAlwaysOk ==
    op = "sync" =>
        /\ result = Ok
        /\ is_opened = pre_opened
        /\ data = pre_data

\* sync returned Ok on a closed unit that holds content
C12_Witness ==
    /\ op = "sync"
    /\ ~pre_opened
    /\ Len(pre_data) > 0
    /\ result = Ok

\* C13: read and write on an open unit return a Result for every offset and
\* length of the word and never panic; a read whose offset + len(buffer)
\* leaves the word returns EndOfFileRead.
C13_NoPanicOnBadRange ==
    (op \in {"read", "write"} /\ pre_opened) =>
        /\ result # Panic
        /\ (op = "read" /\ offset + Len(arg) > UsizeMax) =>
               result = EndOfFileRead(Len(pre_data), offset, Len(arg))

\* C14: after a read, size or sync that returned Ok on an open unit, the
\* caller still holds the unit, open and with the same content, so that a
\* second read of an in-bounds range returns the same bytes.
C14_ObserversKeepUnit ==
    (op \in {"read", "size", "sync"} /\ pre_opened /\ result.kind = "Ok") =>
        /\ ~consumed
        /\ is_opened
        /\ data = pre_data
        /\ op = "read" =>
               \A overflow_checks \in BOOLEAN :
                   read(self, offset, arg, overflow_checks) =
                       [result |-> Ok, buffer |-> buffer]

\* C15: a write(offset, data) that returns Ok on an open unit of size S
\* leaves the unit open, of size max(S, offset + len(data)), with data in
\* [offset, offset + len(data)) and every byte p < S outside that range as
\* it was.
C15_WriteFrame ==
    (op = "write" /\ result = Ok) =>
        /\ is_opened /\ pre_opened
        /\ Len(data) = Max(Len(pre_data), offset + Len(arg))
        /\ \A p \in 1..Len(pre_data) :
               (p <= offset \/ p > offset + Len(arg)) => data[p] = pre_data[p]
        /\ Range(data, offset, offset + Len(arg)) = arg

\* a byte was overwritten in the middle of content whose first and last
\* bytes are not zero
C15_Witness ==
    /\ op = "write"
    /\ result = Ok
    /\ Len(arg) > 0
    /\ offset > 0
    /\ offset + Len(arg) < Len(pre_data)
    /\ pre_data[1] # 0
    /\ pre_data[Len(pre_data)] # 0

\* C16: a call that returns an error (FileOpened, FileNotOpened,
\* EndOfFileRead) has changed neither the flag nor the content, and so not
\* the size, of the unit.
C16_ErrorLeavesState ==
    result.kind \in {"FileAlreadyExists", "FileNotOpened", "FileOpened", "EndOfFileRead"} =>
        /\ is_opened = pre_opened
        /\ data = pre_data
        /\ size(MemoryFile(TRUE, data)) = size(MemoryFile(TRUE, pre_data))

\* a write was refused on a closed unit that holds content
C16_Witness ==
    /\ op = "write"
    /\ result = FileNotOpened
    /\ Len(pre_data) > 0
    /\ Len(arg) > 0
    /\ offset + Len(arg) > Len(pre_data)

\* C17: a close and an open that return Ok leave the content as it was, and
\* after the open a read of the whole content returns it.
C17_ContentPersists ==
    (op \in {"close", "open"} /\ result = Ok) =>
        /\ data = pre_data
        /\ op = "open" =>
               \A overflow_checks \in BOOLEAN :
                   read(self, 0, [i \in 1..Len(pre_data) |-> 0], overflow_checks) =
                       [result |-> Ok, buffer |-> pre_data]

\* a seeded unit written beyond its seed in an earlier session was opened
\* again and holds non-zero content
C17_Witness ==
    /\ op = "open"
    /\ result = Ok
    /\ seed_len > 0
    /\ max_end > seed_len
    /\ \A i \in 1..Len(data) : data[i] # 0

====
